---- MODULE Spec2Model ----
(***************************************************************************)
(* Document ingestion / deletion pipeline of the DocProc service.          *)
(*                                                                         *)
(* The store (documents, processing_statuses, tags, document_tags), the    *)
(* upload directory (files) and the request handlers upload_document and   *)
(* delete_document are modelled step by step: every await of a handler is  *)
(* a point where another request may run.  The validator, the filename     *)
(* sanitizer, the upload root check, the text extractor, list_documents,   *)
(* search_documents and the POST /tags race each have a specification of   *)
(* their own over the same state, and so have the API client               *)
(* (handleResponse) and the components UploadForm, SearchBar and           *)
(* DocumentList, whose requests in flight resolve in any order.            *)
(***************************************************************************)
EXTENDS Integers, Sequences, FiniteSets, Bags, TLC

\* ------------------------------------------------------------------ bounds
\* number of POST /documents requests that pass validation in a behaviour
MaxUploads == 2
\* number of Tag rows ever created in a behaviour
MaxTags == 1

\* number of POST /tags requests in a behaviour
MaxCalls == 3
\* length of the client filenames given to the sanitizer
MaxNameLen == 4
\* number of Document rows a listing pages over
MaxListed == 3
\* number of submits of the UploadForm that send a request
MaxSubmits == 3
\* number of pages of a PDF given to the extractor
MaxPages == 3
\* number of pages the DocumentList may have to show
MaxListPages == 3

\* concurrently running request handlers
Reqs == {"r1", "r2"}

\* the POST /tags requests
TagCalls == 1..MaxCalls

\* ------------------------------------------------------------------ values
TagNames == {"contracts"}

\* names that POST /tags requests ask for
NewTagNames == {"contracts", "invoices"}

\* words a PDF page may contain
Words == {"o", "contrato", "contratos"}

\* extracted text of a PDF: a sequence of words (the empty text is valid)
Texts == {<<>>, <<"contratos">>, <<"o", "contrato">>}

\* what the stored PDF body is: parses to one of Texts, or is corrupt
Corrupt == [parses |-> FALSE, text |-> <<>>]
Bodies == {Corrupt} \cup {[parses |-> TRUE, text |-> t] : t \in Texts}

\* SQL NULL / a present value of a nullable column
NULL == {}
Some(v) == {v}

VARIABLES
    documents,            \* set of Document rows
    processing_statuses,  \* set of ProcessingStatus rows
    tags,                 \* set of Tag rows
    document_tags,        \* bag of <<document_id, tag_id>> rows
    files,                \* paths present in the upload directory
    req,                  \* per handler: its position and locals
    next_id,              \* documents.id sequence
    next_tag_id,          \* tags.id sequence
    uploads,              \* validated uploads so far (names the uuid prefix)
    removed_by_delete,    \* paths that delete_document has removed
    observed,             \* what the last read saw of one document
    calls,                \* per POST /tags request: its position and outcome
    validated,            \* the last UploadFile given to the validator, and its verdict
    sanitized,            \* the last filename given to the sanitizer, and what it returned
    catalog,              \* the Document rows a listing reads: id and created_at
    listed,               \* the last GET /documents, and the pages read in a row
    searched,             \* the last search: its query, its answer, whether it read the store
    toggled,              \* the last attach / detach call and its answer
    api,                  \* the last response given to handleResponse, and what the call did
    upload_form,          \* the UploadForm component
    extraction,           \* one run of extract_text_from_pdf and its document handle
    path_check,           \* the last path given to the upload root check, and the answer
    search_bar,           \* the SearchBar component and its requests in flight
    document_list         \* the DocumentList component and its requests in flight

vars == <<documents, processing_statuses, tags, document_tags, files, req,
          next_id, next_tag_id, uploads, removed_by_delete, observed, calls, validated,
          sanitized, catalog, listed, searched, toggled, api, upload_form, extraction,
          path_check, search_bar, document_list>>

\* what the pipeline's handlers never touch
aux == <<calls, validated, sanitized, catalog, listed, searched, toggled, api,
         upload_form, extraction, path_check, search_bar, document_list>>

\* what a POST /tags request never touches
beside_tags == <<documents, processing_statuses, document_tags, files, req, next_id,
                 uploads, removed_by_delete, observed, validated, sanitized, catalog,
                 listed, searched, toggled, api, upload_form, extraction, path_check,
                 search_bar, document_list>>

\* the pipeline's own state
pipeline == <<documents, processing_statuses, tags, document_tags, files, req,
              next_id, next_tag_id, uploads, removed_by_delete, observed>>

store == <<documents, processing_statuses, tags, document_tags>>

\* every variable that is not named in changing keeps its value
only(changing) ==
    /\ IF "documents" \in changing THEN TRUE ELSE UNCHANGED documents
    /\ IF "processing_statuses" \in changing THEN TRUE ELSE UNCHANGED processing_statuses
    /\ IF "tags" \in changing THEN TRUE ELSE UNCHANGED tags
    /\ IF "document_tags" \in changing THEN TRUE ELSE UNCHANGED document_tags
    /\ IF "files" \in changing THEN TRUE ELSE UNCHANGED files
    /\ IF "req" \in changing THEN TRUE ELSE UNCHANGED req
    /\ IF "next_id" \in changing THEN TRUE ELSE UNCHANGED next_id
    /\ IF "next_tag_id" \in changing THEN TRUE ELSE UNCHANGED next_tag_id
    /\ IF "uploads" \in changing THEN TRUE ELSE UNCHANGED uploads
    /\ IF "removed_by_delete" \in changing THEN TRUE ELSE UNCHANGED removed_by_delete
    /\ IF "observed" \in changing THEN TRUE ELSE UNCHANGED observed
    /\ IF "calls" \in changing THEN TRUE ELSE UNCHANGED calls
    /\ IF "validated" \in changing THEN TRUE ELSE UNCHANGED validated
    /\ IF "sanitized" \in changing THEN TRUE ELSE UNCHANGED sanitized
    /\ IF "catalog" \in changing THEN TRUE ELSE UNCHANGED catalog
    /\ IF "listed" \in changing THEN TRUE ELSE UNCHANGED listed
    /\ IF "searched" \in changing THEN TRUE ELSE UNCHANGED searched
    /\ IF "toggled" \in changing THEN TRUE ELSE UNCHANGED toggled
    /\ IF "api" \in changing THEN TRUE ELSE UNCHANGED api
    /\ IF "upload_form" \in changing THEN TRUE ELSE UNCHANGED upload_form
    /\ IF "extraction" \in changing THEN TRUE ELSE UNCHANGED extraction
    /\ IF "path_check" \in changing THEN TRUE ELSE UNCHANGED path_check
    /\ IF "search_bar" \in changing THEN TRUE ELSE UNCHANGED search_bar
    /\ IF "document_list" \in changing THEN TRUE ELSE UNCHANGED document_list

Idle == [pc |-> "idle", op |-> "none", doc |-> 0, path |-> <<>>,
         body |-> Corrupt, result |-> "none", rm |-> "none", verdict |-> "none"]

NoRead == [doc |-> FALSE, status |-> "none", indexed |-> FALSE]

NotListed == [request |-> [page |-> 0, page_size |-> 0], status |-> 0, items |-> <<>>,
              total |-> 0, page |-> 0, page_size |-> 0, total_pages |-> 0, pages |-> <<>>]

NotSearched == [q |-> <<>>, by |-> "none", sent |-> FALSE, status |-> 0, items |-> {},
                read |-> FALSE]

NoCall == [pc |-> "idle", name |-> "", status |-> 0, detail |-> "", tag |-> 0,
           raced |-> FALSE]

\* ------------------------------------------------------------------ indexer
StopWords == {"o"}

Stem(w) == IF w \in {"contrato", "contratos"} THEN "contrat" ELSE w

\* to_tsvector('portuguese', text): stemmed lexemes with their positions,
\* stop words dropped
to_tsvector(text) ==
    {<<Stem(text[i]), i>> : i \in {j \in 1..Len(text) : text[j] \notin StopWords}}

\* ------------------------------------------------------------------ Init
Init ==
    /\ documents = {}
    /\ processing_statuses = {}
    /\ tags = {}
    /\ document_tags = EmptyBag
    /\ files = {}
    /\ req = [r \in Reqs |-> Idle]
    /\ next_id = 1
    /\ next_tag_id = 1
    /\ uploads = 0
    /\ removed_by_delete = {}
    /\ observed = NoRead
    /\ calls = [c \in TagCalls |-> NoCall]
    /\ validated = [file |-> <<>>, result |-> "none"]
    /\ sanitized = [filename |-> <<>>, called |-> FALSE, result |-> [ok |-> FALSE, name |-> <<>>]]
    /\ catalog = {}
    /\ listed = NotListed
    /\ searched = NotSearched
    /\ toggled = [op |-> "none", status |-> 0, present |-> FALSE]
    /\ api = [fn |-> "none", response |-> <<>>, result |-> <<>>]
    /\ upload_form = [pc |-> "idle", file |-> "", uploading |-> FALSE, error |-> "",
                      onUploadSuccess |-> 0, settled |-> "none", submits |-> 0,
                      refreshKey |-> 0]
    /\ extraction = [pc |-> "idle", doc |-> [valid |-> FALSE, pages |-> <<>>],
                     handle |-> "none", text_parts |-> <<>>, text |-> "",
                     page_count |-> 0, exception |-> "none"]
    /\ path_check = [name |-> <<>>, called |-> FALSE, inside |-> FALSE, status |-> 0,
                     detail |-> "", result |-> "none"]
    /\ search_bar = [query |-> <<>>, debounceTimer |-> FALSE, requests |-> {},
                     results |-> {}, showResults |-> FALSE,
                     answered |-> [q |-> <<>>, any |-> FALSE]]
       \* the DocumentList after its first render: the effect has called
       \* loadDocuments(1)
    /\ document_list = [documents |-> 0, loading |-> TRUE, error |-> "", page |-> 1,
                        total |-> 0, totalPages |-> 1, requests |-> {1},
                        settled |-> "none"]

\* ------------------------------------------------------------------ helpers
Ids(rows) == {x.id : x \in rows}

Row(rows, id) == CHOOSE x \in rows : x.id = id

Finish(r, res) == [req[r] EXCEPT !.pc = "done", !.result = res]

\* ------------------------------------------------------------------ upload validation
ALLOWED_CONTENT_TYPES == {"application/pdf"}
ALLOWED_EXTENSIONS == {<<".", "p", "d", "f">>}
PDF_MAGIC_BYTES == <<"%", "P", "D", "F">>
MAX_FILE_SIZE == 50 * 1024 * 1024

lower(c) == CASE c = "P" -> "p" [] c = "D" -> "d" [] c = "F" -> "f"
              [] c = "A" -> "a" [] c = "E" -> "e" [] c = "X" -> "x" [] OTHER -> c

\* os.path.splitext(name)[1]: from the last dot of the base name, unless that
\* dot only belongs to the leading dots of the base name
splitext(name) ==
    LET seps == {i \in 1..Len(name) : name[i] = "/"}
        base == IF seps = {} THEN 1 ELSE 1 + CHOOSE i \in seps : \A j \in seps : j <= i
        dots == {i \in base..Len(name) : name[i] = "."}
        last == CHOOSE i \in dots : \A j \in dots : j <= i
    IN  IF dots = {} \/ \A k \in base..last : name[k] = "."
        THEN <<>>
        ELSE SubSeq(name, last, Len(name))

startswith(content, prefix) ==
    /\ content.size >= Len(prefix)
    /\ SubSeq(content.head, 1, Len(prefix)) = prefix

\* the validator with the Content-Type check ahead of the extension check
validate_pdf_file_type_first(file) ==
    LET ext == [i \in 1..Len(splitext(file.filename)) |-> lower(splitext(file.filename)[i])]
    IN  IF file.filename = <<>> THEN "filename"
        ELSE IF file.content_type \notin ALLOWED_CONTENT_TYPES THEN "content_type"
        ELSE IF ext \notin ALLOWED_EXTENSIONS THEN "extension"
        ELSE IF file.content.size > MAX_FILE_SIZE THEN "too_large"
        ELSE IF file.content.size = 0 THEN "empty"
        ELSE IF ~startswith(file.content, PDF_MAGIC_BYTES) THEN "signature"
        ELSE "ok"

\* the first failing check of validate_pdf_file, or "ok"
validate_pdf_file(file) ==
    LET ext == [i \in 1..Len(splitext(file.filename)) |-> lower(splitext(file.filename)[i])]
    IN  IF file.filename = <<>> THEN "filename"
        ELSE IF ext \notin ALLOWED_EXTENSIONS THEN "extension"
        ELSE IF file.content_type \notin ALLOWED_CONTENT_TYPES THEN "content_type"
        ELSE IF file.content.size > MAX_FILE_SIZE THEN "too_large"
        ELSE IF file.content.size = 0 THEN "empty"
        ELSE IF ~startswith(file.content, PDF_MAGIC_BYTES) THEN "signature"
        ELSE "ok"

FileNames == {<<>>,
              <<"a", ".", "p", "d", "f">>,
              <<"x", ".", "e", "x", "e">>,
              <<"d", "/", ".", "p", "d", "f">>}

Contents == {[size |-> 0, head |-> <<>>],
             [size |-> 5, head |-> <<"%", "P", "D", "F">>],
             [size |-> 5, head |-> <<"M", "Z", "x", "x">>],
             [size |-> 3, head |-> <<"%", "P", "D">>],
             [size |-> MAX_FILE_SIZE + 1, head |-> <<"%", "P", "D", "F">>]}

\* an UploadFile: declared name and type, the payload, and what the payload
\* holds for the text extractor
UploadFiles == [filename : FileNames,
                content_type : {"application/pdf", "text/plain"},
                content : Contents,
                body : Bodies]

\* the UploadFiles the validator is probed with
ValidatorFileNames ==
    FileNames \cup {<<"a", ".", "P", "D", "F">>,
                    <<".", "p", "d", "f">>,
                    <<"a", ".", "P", "d", "F">>,
                    <<"a", ".", "p", "d", "f", ".", "e", "x", "e">>,
                    <<"a", ".", ".", "p", "d", "f">>,
                    <<"p", "d", "f">>,
                    <<"a", ".", "p", "d", "f", "/", "x">>}

ValidatorContents ==
    Contents \cup {[size |-> MAX_FILE_SIZE, head |-> <<"%", "P", "D", "F">>],
                   [size |-> MAX_FILE_SIZE + 1, head |-> <<"M", "Z", "x", "x">>],
                   [size |-> 4, head |-> <<"%", "P", "D", "F">>],
                   [size |-> 5, head |-> <<"%", "p", "d", "f">>]}

ValidatorFiles == [filename : ValidatorFileNames,
                   content_type : {"application/pdf", "text/plain", "application/PDF"},
                   content : ValidatorContents,
                   body : {Corrupt}]

\* content = await validate_pdf_file(file), on its own
validate(file) ==
    /\ validated' = [file |-> file, result |-> validate_pdf_file(file)]
    /\ only({"validated"})

\* ------------------------------------------------------------------ filename sanitizer
\* characters a client filename is made of: one-character strings, and names
\* for the null byte and for a letter outside ASCII
NUL == "NUL"
E_ACUTE == "e-acute"

AsciiWord == {"a", "d", "e", "f", "p", "x", "A", "D", "E", "F", "P", "X", "0", "1", "_"}

\* \w of a str pattern: letters and digits of any script, and the underscore
IsWordChar(c) == c \in AsciiWord \cup {E_ACUTE}

\* os.path.basename on POSIX: what follows the last "/"
basename(name) ==
    LET seps == {i \in 1..Len(name) : name[i] = "/"}
    IN  IF seps = {} THEN name
        ELSE SubSeq(name, 1 + (CHOOSE i \in seps : \A j \in seps : j <= i), Len(name))

IsNotNul(c) == c # NUL

\* re.sub(r'[^\w.\-]', '_', name)
re_sub(name) ==
    [i \in 1..Len(name) |-> IF IsWordChar(name[i]) \/ name[i] \in {".", "-"}
                            THEN name[i] ELSE "_"]

HexDigits == <<"0", "1", "2", "3", "4", "5", "6", "7", "8", "9", "a", "b", "c", "d", "e", "f">>

\* a prefix that is the same in every call
uuid_prefix_constant(n) == [i \in 1..8 |-> "0"]

\* uuid.uuid4().hex[:8] of the n-th draw: eight hex digits, taken as never
\* drawn twice
uuid_prefix(n) == [i \in 1..8 |-> IF i < 8 THEN "0" ELSE HexDigits[(n % 16) + 1]]

InvalidName == [ok |-> FALSE, name |-> <<>>]

\* the client filename used as it came
sanitize_filename_raw(filename, unique_prefix) ==
    IF filename = <<>> THEN InvalidName ELSE [ok |-> TRUE, name |-> filename]

\* sanitize_filename: ValueError, or the prefixed safe name
sanitize_filename(filename, unique_prefix) ==
    IF filename = <<>> THEN InvalidName
    ELSE LET safe_name == re_sub(SelectSeq(basename(filename), IsNotNul))
         IN  IF safe_name = <<>> \/ safe_name \in {<<".">>, <<".", ".">>}
             THEN InvalidName
             ELSE [ok |-> TRUE, name |-> unique_prefix \o <<"_">> \o safe_name]

\* the characters of the client filenames the sanitizer is probed with
SanitizerChars == {"a", ".", "-", "/", "\\", " ", NUL, E_ACUTE}

\* the client filename, one character after another
client_filename(c) ==
    /\ ~sanitized.called
    /\ Len(sanitized.filename) < MaxNameLen
    /\ sanitized' = [sanitized EXCEPT !.filename = Append(@, c)]
    /\ only({"sanitized"})

\* safe_filename = sanitize_filename(file.filename), on its own
sanitize(n) ==
    /\ ~sanitized.called
    /\ sanitized' = [sanitized EXCEPT !.called = TRUE,
                                      !.result = sanitize_filename(sanitized.filename,
                                                                   uuid_prefix(n))]
    /\ only({"sanitized"})

\* settings.UPLOAD_DIR, as the components of an absolute path
UPLOAD_DIR ==
    << <<"t", "m", "p">>,
       <<"d", "o", "c", "p", "r", "o", "c", "_", "u", "p", "l", "o", "a", "d", "s">> >>

\* the components of a path string between its "/"
RECURSIVE split(_)
split(name) ==
    LET seps == {i \in 1..Len(name) : name[i] = "/"}
    IN  IF seps = {} THEN <<name>>
        ELSE LET i == CHOOSE k \in seps : \A j \in seps : k <= j
             IN  <<SubSeq(name, 1, i - 1)>> \o split(SubSeq(name, i + 1, Len(name)))

\* os.path.join(dir, name): an absolute name discards dir
join(dir, name) ==
    IF name # <<>> /\ name[1] = "/" THEN split(name) ELSE dir \o split(name)

\* os.path.realpath on a tree without symbolic links: empty and "."
\* components dropped, ".." steps to the parent
RECURSIVE resolve(_, _)
resolve(done, rest) ==
    IF rest = <<>> THEN done
    ELSE LET c == Head(rest)
         IN  IF c = <<>> \/ c = <<".">> THEN resolve(done, Tail(rest))
             ELSE IF c = <<".", ".">>
                  THEN resolve(IF done = <<>> THEN done ELSE SubSeq(done, 1, Len(done) - 1),
                               Tail(rest))
                  ELSE resolve(Append(done, c), Tail(rest))

realpath(path) == resolve(<<>>, path)

\* the resolved path starts with the resolved upload directory
validate_file_path(upload_dir, file_path) ==
    LET root == realpath(upload_dir)
        real == realpath(file_path)
    IN  /\ Len(real) >= Len(root)
        /\ SubSeq(real, 1, Len(root)) = root

\* ------------------------------------------------------------------ upload_document
\* how a request ends whose upload was refused with status 400
Rejected(verdict) ==
    [Idle EXCEPT !.pc = "done", !.op = "upload", !.result = "ValidationError",
                 !.verdict = verdict]

\* file_path = os.path.join(settings.UPLOAD_DIR, safe_filename) and the check
\* of it, on their own: how the endpoint answers a path outside the root
check_file_path(safe_filename) ==
    /\ LET file_path == join(UPLOAD_DIR, safe_filename)
           inside == validate_file_path(UPLOAD_DIR, file_path)
       IN  path_check' = [name |-> safe_filename,
                          called |-> TRUE,
                          inside |-> inside,
                          status |-> IF inside THEN 0 ELSE 400,
                          detail |-> IF inside THEN "" ELSE "Invalid file path",
                          result |-> IF inside THEN "none"
                                     ELSE Rejected("file_path").result]
    /\ only({"path_check"})

\* the handler that stores the payload under its path before validating it
upload_document_validate_after_write(r) ==
    /\ req[r].pc = "idle"
    /\ uploads < MaxUploads
    /\ \E file \in UploadFiles :
         LET safe_filename == sanitize_filename(file.filename, uuid_prefix(uploads + 1))
             file_path == join(UPLOAD_DIR, safe_filename.name)
         IN  /\ safe_filename.ok
             /\ uploads' = uploads + 1
             /\ files' = files \cup {file_path}
             /\ IF validate_pdf_file(file) # "ok"
                THEN req' = [req EXCEPT ![r] = Rejected(validate_pdf_file(file))]
                ELSE req' = [req EXCEPT ![r] = [Idle EXCEPT !.pc = "up_write", !.op = "upload",
                                                            !.path = file_path,
                                                            !.body = file.body,
                                                            !.verdict = "ok"]]
    /\ UNCHANGED <<store, next_id, next_tag_id, removed_by_delete, observed, aux>>

\* validation and path construction; nothing durable happens here
upload_document_validate(r) ==
    /\ req[r].pc = "idle"
    /\ uploads < MaxUploads
    /\ \E file \in UploadFiles :
         LET verdict == validate_pdf_file(file)
             safe_filename == sanitize_filename(file.filename, uuid_prefix(uploads + 1))
             file_path == join(UPLOAD_DIR, safe_filename.name)
         IN  IF verdict # "ok"
             THEN /\ req' = [req EXCEPT ![r] = Rejected(verdict)]
                  /\ UNCHANGED uploads
             ELSE IF ~safe_filename.ok
             THEN /\ req' = [req EXCEPT ![r] = [Idle EXCEPT !.pc = "done", !.op = "upload",
                                                            !.result = "InternalError",
                                                            !.verdict = "ok"]]
                  /\ UNCHANGED uploads
             ELSE IF ~validate_file_path(UPLOAD_DIR, file_path)
             THEN /\ req' = [req EXCEPT ![r] = Rejected("file_path")]
                  /\ uploads' = uploads + 1
             ELSE /\ uploads' = uploads + 1
                  /\ req' = [req EXCEPT ![r] = [Idle EXCEPT !.pc = "up_write", !.op = "upload",
                                                            !.path = file_path,
                                                            !.body = file.body,
                                                            !.verdict = "ok"]]
    /\ UNCHANGED <<store, files, next_id, next_tag_id, removed_by_delete, observed, aux>>

\* with open(file_path, "wb") as f: f.write(content)
upload_document_write(r) ==
    /\ req[r].pc = "up_write"
    /\ files' = files \cup {req[r].path}
    /\ req' = [req EXCEPT ![r].pc = "up_extract"]
    /\ UNCHANGED <<store, next_id, next_tag_id, uploads, removed_by_delete, observed, aux>>

\* extract_text_from_pdf: the joined page texts, or an exception on a body
\* that does not parse
extract_text_from_pdf(body) ==
    IF body.parses THEN [raised |-> FALSE, text |-> body.text]
                   ELSE [raised |-> TRUE, text |-> <<>>]

\* try: text_content, page_count = await extract_text_from_pdf(file_path)
upload_document_extract(r) ==
    /\ req[r].pc = "up_extract"
    /\ req' = [req EXCEPT ![r].pc = IF extract_text_from_pdf(req[r].body).raised
                                    THEN "up_cleanup" ELSE "up_create"]
    /\ UNCHANGED <<store, files, next_id, next_tag_id, uploads, removed_by_delete,
                   observed, aux>>

\* the except branch without the cleanup
upload_document_cleanup_none(r) ==
    /\ req[r].pc = "up_cleanup"
    /\ req' = [req EXCEPT ![r] = Finish(r, "ProcessingError")]
    /\ UNCHANGED <<store, files, next_id, next_tag_id, uploads, removed_by_delete,
                   observed, aux>>

\* except Exception: best-effort os.remove, then HTTPException(422)
upload_document_cleanup(r) ==
    /\ req[r].pc = "up_cleanup"
    /\ \/ /\ req[r].path \in files
          /\ files' = files \ {req[r].path}
          /\ req' = [req EXCEPT ![r] = [Finish(r, "ProcessingError") EXCEPT !.rm = "removed"]]
       \/ /\ req[r].path \in files          \* os.remove raises OSError: ignored
          /\ files' = files
          /\ req' = [req EXCEPT ![r] = [Finish(r, "ProcessingError") EXCEPT !.rm = "failed"]]
       \/ /\ req[r].path \notin files       \* os.path.isfile is false
          /\ files' = files
          /\ req' = [req EXCEPT ![r] = [Finish(r, "ProcessingError") EXCEPT !.rm = "missing"]]
    /\ UNCHANGED <<store, next_id, next_tag_id, uploads, removed_by_delete, observed, aux>>

\* the transaction that inserts the Document and its ProcessingStatus
InsertDocument(r) ==
    /\ documents' = documents \cup
          {[id |-> next_id, file_path |-> req[r].path, content |-> req[r].body.text,
            search_vector |-> NULL]}
    /\ processing_statuses' = processing_statuses \cup
          {[document_id |-> next_id, status |-> "completed"]}

\* create the document record: commits, or fails and rolls back; a failure
\* here is outside the try/except that cleans the file up
upload_document_create(r) ==
    /\ req[r].pc = "up_create"
    /\ \/ /\ InsertDocument(r)
          /\ next_id' = next_id + 1
          /\ req' = [req EXCEPT ![r].pc = "up_index", ![r].doc = next_id]
       \/ /\ UNCHANGED <<documents, processing_statuses, next_id>>
          /\ req' = [req EXCEPT ![r] = Finish(r, "InternalError")]
    /\ UNCHANGED <<tags, document_tags, files, next_tag_id, uploads, removed_by_delete,
                   observed, aux>>

\* UPDATE documents SET search_vector = to_tsvector(...) WHERE id = :doc_id
SetSearchVector(id, text_content) ==
    documents' = {IF d.id = id THEN [d EXCEPT !.search_vector = Some(to_tsvector(text_content))]
                               ELSE d : d \in documents}

\* if text_content: UPDATE ...; commit -- a second transaction after the
\* record was created
upload_document_index(r) ==
    /\ req[r].pc = "up_index"
    /\ IF req[r].body.text # <<>>
       THEN \/ /\ SetSearchVector(req[r].doc, req[r].body.text)
               /\ req' = [req EXCEPT ![r] = Finish(r, "ok")]
            \/ /\ UNCHANGED documents
               /\ req' = [req EXCEPT ![r] = Finish(r, "InternalError")]
       ELSE /\ UNCHANGED documents
            /\ req' = [req EXCEPT ![r] = Finish(r, "ok")]
    /\ UNCHANGED <<processing_statuses, tags, document_tags, files, next_id, next_tag_id,
                   uploads, removed_by_delete, observed, aux>>

\* ------------------------------------------------------------------ delete_document
\* the handler with the file removed before the transaction
delete_document_lookup_remove_first(r, document_id) ==
    /\ req[r].pc = "idle"
    /\ IF document_id \in Ids(documents)
       THEN /\ req' = [req EXCEPT ![r] = [Idle EXCEPT !.pc = "del_commit", !.op = "delete",
                                                      !.doc = document_id,
                                                      !.path = Row(documents, document_id).file_path]]
            /\ files' = files \ {Row(documents, document_id).file_path}
            /\ removed_by_delete' = removed_by_delete \cup
                                        {Row(documents, document_id).file_path}
       ELSE /\ req' = [req EXCEPT ![r] = [Idle EXCEPT !.pc = "done", !.op = "delete",
                                                      !.doc = document_id,
                                                      !.result = "NotFoundError"]]
            /\ UNCHANGED <<files, removed_by_delete>>
    /\ UNCHANGED <<store, next_id, next_tag_id, uploads, observed, aux>>

\* select(Document).where(Document.id == document_id); 404 when absent
delete_document_lookup(r, document_id) ==
    /\ req[r].pc = "idle"
    /\ IF document_id \in Ids(documents)
       THEN req' = [req EXCEPT ![r] = [Idle EXCEPT !.pc = "del_commit", !.op = "delete",
                                                   !.doc = document_id,
                                                   !.path = Row(documents, document_id).file_path]]
       ELSE req' = [req EXCEPT ![r] = [Idle EXCEPT !.pc = "done", !.op = "delete",
                                                   !.doc = document_id,
                                                   !.result = "NotFoundError"]]
    /\ UNCHANGED <<store, files, next_id, next_tag_id, uploads, removed_by_delete,
                   observed, aux>>

\* a foreign key without ON DELETE CASCADE
CascadeStatuses_none(document_id) ==
    UNCHANGED processing_statuses

\* rows that go with a Document row: ondelete="CASCADE" on processing_statuses
CascadeStatuses(document_id) ==
    processing_statuses' = {s \in processing_statuses : s.document_id # document_id}

\* an association table without cascade
CascadeDocumentTags_none(document_id) ==
    UNCHANGED document_tags

\* rows of the association table that go with a Document row
CascadeDocumentTags(document_id) ==
    document_tags' = [p \in {q \in DOMAIN document_tags : q[1] # document_id}
                        |-> document_tags[p]]

\* the delete transaction, applied as one unit
DeleteDocumentRows(document_id) ==
    /\ documents' = {d \in documents : d.id # document_id}
    /\ CascadeStatuses(document_id)
    /\ CascadeDocumentTags(document_id)

\* a failed delete whose earlier statement was committed on its own
DeleteRollback_partial(r) ==
    /\ CascadeStatuses(req[r].doc)
    /\ UNCHANGED <<documents, document_tags>>
    /\ req' = [req EXCEPT ![r] = Finish(r, "InternalError")]

\* the transaction does not commit: rolled back, the exception leaves the handler
DeleteRollback(r) ==
    /\ UNCHANGED <<documents, processing_statuses, document_tags>>
    /\ req' = [req EXCEPT ![r] = Finish(r, "InternalError")]

\* a delete that also drops the Tag rows the document was labelled with
delete_document_commit_with_tags(r) ==
    /\ req[r].pc = "del_commit"
    /\ DeleteDocumentRows(req[r].doc)
    /\ tags' = {t \in tags : ~BagIn(<<req[r].doc, t.id>>, document_tags)}
    /\ req' = [req EXCEPT ![r].pc = "del_file"]
    /\ UNCHANGED <<files, next_id, next_tag_id, uploads, removed_by_delete, observed, aux>>

\* Delete ProcessingStatus and Document from DB; await db.commit()
delete_document_commit(r) ==
    /\ req[r].pc = "del_commit"
    /\ \/ /\ DeleteDocumentRows(req[r].doc)
          /\ req' = [req EXCEPT ![r].pc = "del_file"]
       \/ DeleteRollback(r)
    /\ UNCHANGED <<tags, files, next_id, next_tag_id, uploads, removed_by_delete, observed,
                   aux>>

\* the OSError of os.remove left to propagate
AfterRemoveError_raise(r) == [Finish(r, "InternalError") EXCEPT !.rm = "failed"]

\* how the handler ends when os.remove raises OSError: except OSError: pass
AfterRemoveError(r) == [Finish(r, "ok") EXCEPT !.rm = "failed"]

\* the handler that returns without touching the file
delete_document_discard_skip(r) ==
    /\ req[r].pc = "del_file"
    /\ req' = [req EXCEPT ![r] = Finish(r, "ok")]
    /\ UNCHANGED <<store, files, next_id, next_tag_id, uploads, removed_by_delete,
                   observed, aux>>

\* if file_path: try: if os.path.isfile(file_path): os.remove(file_path)
delete_document_discard(r) ==
    /\ req[r].pc = "del_file"
    /\ \/ /\ req[r].path \in files
          /\ files' = files \ {req[r].path}
          /\ removed_by_delete' = removed_by_delete \cup {req[r].path}
          /\ req' = [req EXCEPT ![r] = [Finish(r, "ok") EXCEPT !.rm = "removed"]]
       \/ /\ req[r].path \in files
          /\ UNCHANGED <<files, removed_by_delete>>
          /\ req' = [req EXCEPT ![r] = AfterRemoveError(r)]
       \/ /\ req[r].path \notin files
          /\ UNCHANGED <<files, removed_by_delete>>
          /\ req' = [req EXCEPT ![r] = [Finish(r, "ok") EXCEPT !.rm = "missing"]]
    /\ UNCHANGED <<store, next_id, next_tag_id, uploads, observed, aux>>

\* the response has been delivered; the worker takes the next request
Return(r) ==
    /\ req[r].pc = "done"
    /\ req' = [req EXCEPT ![r] = Idle]
    /\ UNCHANGED <<store, files, next_id, next_tag_id, uploads, removed_by_delete,
                   observed, aux>>

\* the process dies inside a handler: the open transaction is lost, what was
\* committed or written stays
Crash(r) ==
    /\ req[r].pc \notin {"idle", "done"}
    /\ req' = [req EXCEPT ![r] = Idle]
    /\ UNCHANGED <<store, files, next_id, next_tag_id, uploads, removed_by_delete,
                   observed, aux>>

\* the task running upload_document is cancelled: CancelledError is raised at
\* the await the handler is suspended in.  After the file was written these
\* are the awaits on the session (the commit of the new rows, the UPDATE of
\* search_vector and its commit); extract_text_from_pdf never suspends.
\* CancelledError is not an Exception, so no except clause of the handler
\* runs; the open transaction is rolled back with the session.
Cancel(r) ==
    /\ req[r].op = "upload"
    /\ req[r].pc \in {"up_create", "up_index"}
    /\ req' = [req EXCEPT ![r] = Finish(r, "Cancelled")]
    /\ UNCHANGED <<store, files, next_id, next_tag_id, uploads, removed_by_delete,
                   observed, aux>>

\* ------------------------------------------------------------------ reads
\* what one read sees of document_id: the row, the status string that
\* list_documents reports, and whether the row can be matched by search
read_document(document_id) ==
    /\ observed' =
         IF document_id \in Ids(documents)
         THEN [doc |-> TRUE,
               status |-> IF \E s \in processing_statuses : s.document_id = document_id
                          THEN (CHOOSE s \in processing_statuses :
                                    s.document_id = document_id).status
                          ELSE "unknown",
               indexed |-> Row(documents, document_id).search_vector # NULL]
         ELSE NoRead
    /\ UNCHANGED <<store, files, req, next_id, next_tag_id, uploads, removed_by_delete,
                   aux>>

\* ------------------------------------------------------------------ tag registry
\* POST /tags: unique name, else "already exists"
createTag(name) ==
    /\ next_tag_id <= MaxTags
    /\ \A t \in tags : t.name # name
    /\ tags' = tags \cup {[id |-> next_tag_id, name |-> name]}
    /\ next_tag_id' = next_tag_id + 1
    /\ UNCHANGED <<documents, processing_statuses, document_tags, files, req, next_id,
                   uploads, removed_by_delete, observed, aux>>

\* DELETE /tags/{id}: the Tag and every DocumentTag row referencing it
deleteTag(tagId) ==
    /\ tagId \in Ids(tags)
    /\ tags' = {t \in tags : t.id # tagId}
    /\ document_tags' = [p \in {q \in DOMAIN document_tags : q[2] # tagId}
                           |-> document_tags[p]]
    /\ UNCHANGED <<documents, processing_statuses, files, req, next_id, next_tag_id,
                   uploads, removed_by_delete, observed, aux>>

\* an attach that inserts its row whether or not the pair is there
addTagToDocument_insert_always(documentId, tagId) ==
    /\ documentId \in Ids(documents)
    /\ tagId \in Ids(tags)
    /\ document_tags' = document_tags (+) SetToBag({<<documentId, tagId>>})
    /\ toggled' = [op |-> "attach", status |-> 200,
                   present |-> BagIn(<<documentId, tagId>>, document_tags)]
    /\ only({"document_tags", "toggled"})

\* POST /documents/{id}/tags/{tagId}: no-op when the pair is present
addTagToDocument(documentId, tagId) ==
    /\ documentId \in Ids(documents)
    /\ tagId \in Ids(tags)
    /\ IF BagIn(<<documentId, tagId>>, document_tags)
       THEN UNCHANGED document_tags
       ELSE document_tags' = document_tags (+) SetToBag({<<documentId, tagId>>})
    /\ toggled' = [op |-> "attach", status |-> 200,
                   present |-> BagIn(<<documentId, tagId>>, document_tags)]
    /\ only({"document_tags", "toggled"})

\* DELETE /documents/{id}/tags/{tagId}: no-op when the pair is absent
removeTagFromDocument(documentId, tagId) ==
    /\ documentId \in Ids(documents)
    /\ tagId \in Ids(tags)
    /\ document_tags' = [p \in DOMAIN document_tags \ {<<documentId, tagId>>}
                           |-> document_tags[p]]
    /\ toggled' = [op |-> "detach", status |-> 200,
                   present |-> BagIn(<<documentId, tagId>>, document_tags)]
    /\ only({"document_tags", "toggled"})

\* ------------------------------------------------------------------ list_documents
DEFAULT_PAGE_SIZE == 20
MAX_PAGE_SIZE == 100

\* page and page_size of the requests made
PageNumbers == 0..(MaxListed + 1)
PageSizes == {0, 1, 2, MaxListed, DEFAULT_PAGE_SIZE, MAX_PAGE_SIZE, MAX_PAGE_SIZE + 1}

\* a Document row is committed; created_at = datetime.utcnow, which two rows
\* may share
insert_document(created_at) ==
    /\ Cardinality(catalog) < MaxListed
    /\ \A d \in catalog : d.created_at <= created_at
    /\ catalog' = catalog \cup {[id |-> Cardinality(catalog) + 1, created_at |-> created_at]}
    /\ listed' = NotListed
    /\ only({"catalog", "listed"})

\* page count by floor division
total_pages_floor(total, page_size) == IF total > 0 THEN total \div page_size ELSE 1

\* (total + page_size - 1) // page_size if total > 0 else 1
total_pages(total, page_size) ==
    IF total > 0 THEN (total + page_size - 1) \div page_size ELSE 1

\* the orders in which ORDER BY created_at DESC may deliver the rows: rows of
\* equal created_at come in any order
OrderByCreatedAtDesc(rows) ==
    {o \in [1..Cardinality(rows) -> Ids(rows)] :
        /\ \A i, j \in DOMAIN o : i # j => o[i] # o[j]
        /\ \A i, j \in DOMAIN o :
               i < j => Row(rows, o[i]).created_at >= Row(rows, o[j]).created_at}

\* .offset(offset).limit(limit) of an ordered result
OffsetLimit(ordered, offset, limit) ==
    SubSeq(ordered, offset + 1, IF offset + limit < Len(ordered) THEN offset + limit
                                                                 ELSE Len(ordered))

\* GET /documents?page=&page_size=: 422 outside ge=1 / le=MAX_PAGE_SIZE, else
\* the count, the page arithmetic and the slice of the ordered rows; pages
\* holds the items of pages 1, 2, ... as long as they are asked for in a row
\* with one page_size
list_documents(page, page_size) ==
    /\ IF page < 1 \/ page_size < 1 \/ page_size > MAX_PAGE_SIZE
       THEN listed' = [NotListed EXCEPT !.request = [page |-> page, page_size |-> page_size],
                                        !.status = 422]
       ELSE \E items \in {OffsetLimit(ordered, (page - 1) * page_size, page_size) :
                               ordered \in OrderByCreatedAtDesc(catalog)} :
              LET total == Cardinality(catalog)
              IN  listed' = [request |-> [page |-> page, page_size |-> page_size],
                             status |-> 200,
                             items |-> items,
                             total |-> total,
                             page |-> page,
                             page_size |-> page_size,
                             total_pages |-> total_pages(total, page_size),
                             pages |-> IF page = 1 THEN <<items>>
                                       ELSE IF /\ page = Len(listed.pages) + 1
                                               /\ page_size = listed.page_size
                                            THEN Append(listed.pages, items)
                                            ELSE <<>>]
    /\ only({"listed"})

\* ------------------------------------------------------------------ search_documents
\* query strings: words separated by blanks
Queries == {<<>>,
            <<" ">>,
            <<" ", " ">>,
            <<"contratos">>,
            <<" ", "contrato", " ">>,
            <<"o">>,
            <<"o", " ", "contratos">>}

\* the string without its leading and trailing blanks
RECURSIVE strip(_)
strip(q) ==
    IF q = <<>> THEN q
    ELSE IF Head(q) = " " THEN strip(Tail(q))
    ELSE IF q[Len(q)] = " " THEN strip(SubSeq(q, 1, Len(q) - 1))
    ELSE q

\* the normalised query; empty for a query of blanks
sanitize_search_query(q) == strip(q)

\* plainto_tsquery('portuguese', text): the stems of the words, stop words
\* dropped, all required
plainto_tsquery(text) ==
    {Stem(text[i]) : i \in {j \in 1..Len(text) : text[j] \notin StopWords \cup {" "}}}

\* search_vector @@ tsquery: a NULL vector matches nothing, nor does an
\* empty tsquery
Matches(search_vector, tsquery) ==
    /\ search_vector # NULL
    /\ tsquery # {}
    /\ \A lexeme \in tsquery :
           \E entry \in UNION search_vector : entry[1] = lexeme

\* the statement run whatever the normalised query is
search_documents_unguarded(q) ==
    IF Len(q) < 1
    THEN [status |-> 422, items |-> {}, read |-> FALSE]
    ELSE [status |-> 200,
          items |-> {d.id : d \in {x \in documents :
                        Matches(x.search_vector,
                                plainto_tsquery(sanitize_search_query(q)))}},
          read |-> TRUE]

\* GET /search?q=: 422 under min_length=1; [] without a statement when the
\* normalised query is empty; else the ids of the matching Documents
search_documents(q) ==
    IF Len(q) < 1
    THEN [status |-> 422, items |-> {}, read |-> FALSE]
    ELSE IF sanitize_search_query(q) = <<>>
    THEN [status |-> 200, items |-> {}, read |-> FALSE]
    ELSE [status |-> 200,
          items |-> {d.id : d \in {x \in documents :
                        Matches(x.search_vector,
                                plainto_tsquery(sanitize_search_query(q)))}},
          read |-> TRUE]

\* a request sent to GET /search by any client
searchDocuments(q) ==
    /\ searched' = [q |-> q, by |-> "request", sent |-> TRUE] @@ search_documents(q)
    /\ only({"searched"})

\* the SearchBar after its query changed to q: results cleared without a
\* request when q.trim() is empty, else the answer of searchDocuments(q)
SearchBar(q) ==
    /\ IF strip(q) = <<>>
       THEN searched' = [NotSearched EXCEPT !.q = q, !.by = "SearchBar"]
       ELSE searched' = [q |-> q, by |-> "SearchBar", sent |-> TRUE] @@ search_documents(q)
    /\ only({"searched"})

\* ------------------------------------------------------------------ SearchBar, step by step
\* onChange: setQuery, then the query effect: the cleanup of the previous
\* run clears its timer; a blank query clears the results and closes the
\* panel, any other query starts the 300 ms timer
setQuery(q) ==
    /\ q # search_bar.query
    /\ IF strip(q) = <<>>
       THEN search_bar' = [search_bar EXCEPT !.query = q, !.debounceTimer = FALSE,
                                             !.results = {}, !.showResults = FALSE]
       ELSE search_bar' = [search_bar EXCEPT !.query = q, !.debounceTimer = TRUE]
    /\ only({"search_bar"})

\* the timer fires: setSearching(true) and searchDocuments(query) is sent
debounceTimer ==
    /\ search_bar.debounceTimer
    /\ search_bar' = [search_bar EXCEPT !.debounceTimer = FALSE,
                                        !.requests = @ \cup {search_bar.query}]
    /\ only({"search_bar"})

\* a request resolves, in any order with the others: setResults(data),
\* setShowResults(true)
searchDocuments_resolved(q, data) ==
    /\ q \in search_bar.requests
    /\ search_bar' = [search_bar EXCEPT !.requests = @ \ {q},
                                        !.results = data,
                                        !.showResults = TRUE,
                                        !.answered = [q |-> q, any |-> TRUE]]
    /\ only({"search_bar"})

\* a request rejects: console.error only
searchDocuments_rejected(q) ==
    /\ q \in search_bar.requests
    /\ search_bar' = [search_bar EXCEPT !.requests = @ \ {q}]
    /\ only({"search_bar"})

\* a mousedown outside the container closes the panel
handleClickOutside ==
    /\ search_bar.showResults
    /\ search_bar' = [search_bar EXCEPT !.showResults = FALSE]
    /\ only({"search_bar"})

\* onFocus={() => results.length > 0 && setShowResults(true)}
onFocus ==
    /\ search_bar.results # {}
    /\ ~search_bar.showResults
    /\ search_bar' = [search_bar EXCEPT !.showResults = TRUE]
    /\ only({"search_bar"})

\* ------------------------------------------------------------------ DocumentList
PAGE_SIZE == 20

\* documents are uploaded and deleted, by this client or by others
documents_change(total) ==
    /\ total # Cardinality(catalog)
    /\ catalog' = {[id |-> i, created_at |-> i] : i \in 1..total}
    /\ only({"catalog"})

\* len(items) of the answer to GET /documents?page=&page_size=
items_length(total, page, page_size) ==
    LET offset == (page - 1) * page_size
    IN  IF offset >= total THEN 0
        ELSE IF offset + page_size < total THEN page_size ELSE total - offset

\* what the component returns: the loading text, the error, or the list
render(list) ==
    IF list.loading /\ list.documents = 0 THEN "loading"
    ELSE IF list.error # "" THEN "error"
    ELSE "list"

\* loadDocuments(page) up to its await: setLoading(true), the request leaves
loadDocuments(list, page) ==
    [list EXCEPT !.loading = TRUE, !.requests = @ \cup {page}]

\* goToPage(page) from one of the four pagination buttons, which the list
\* shows when there is more than one page and disables while loading; a
\* changed page runs the effect, which loads that page
goToPage(page) ==
    /\ render(document_list) = "list"
    /\ document_list.documents > 0
    /\ document_list.totalPages > 1
    /\ ~document_list.loading
    /\ page \in {1, document_list.page - 1, document_list.page + 1,
                 document_list.totalPages}
    /\ page # document_list.page
    /\ IF page >= 1 /\ page <= document_list.totalPages
       THEN document_list' = loadDocuments([document_list EXCEPT !.page = page], page)
       ELSE UNCHANGED document_list
    /\ only({"document_list"})

\* refreshKey changed (an upload succeeded): the effect loads the current page
refreshKey ==
    /\ document_list' = loadDocuments(document_list, document_list.page)
    /\ only({"document_list"})

\* a load that clears the error when its data arrives
getDocuments_resolved_clears_error(page) ==
    /\ page \in document_list.requests
    /\ LET total == Cardinality(catalog)
       IN  document_list' =
              [document_list EXCEPT
                  !.requests = @ \ {page},
                  !.documents = items_length(total, page, PAGE_SIZE),
                  !.total = total,
                  !.totalPages = total_pages(total, PAGE_SIZE),
                  !.error = "",
                  !.loading = FALSE,
                  !.settled = "resolved"]
    /\ only({"document_list"})

\* the rest of loadDocuments when getDocuments(page, PAGE_SIZE) resolved:
\* setDocuments(data.items), total and totalPages taken from the answer, the
\* page left as it is, setLoading(false)
getDocuments_resolved(page) ==
    /\ page \in document_list.requests
    /\ LET total == Cardinality(catalog)
       IN  document_list' =
              [document_list EXCEPT
                  !.requests = @ \ {page},
                  !.documents = items_length(total, page, PAGE_SIZE),
                  !.total = total,
                  !.totalPages = total_pages(total, PAGE_SIZE),
                  !.loading = FALSE,
                  !.settled = "resolved"]
    /\ only({"document_list"})

\* the rest of loadDocuments when getDocuments rejected: setError,
\* setLoading(false)
getDocuments_rejected(page) ==
    /\ page \in document_list.requests
    /\ document_list' = [document_list EXCEPT !.requests = @ \ {page},
                                              !.error = "Failed to load documents",
                                              !.loading = FALSE,
                                              !.settled = "rejected"]
    /\ only({"document_list"})

\* ------------------------------------------------------------------ API client
\* a response body: nothing, text that is not JSON, the JSON value null, or
\* a JSON object; an object field that is absent or empty is ""
NoBody == [kind |-> "empty", detail |-> "", message |-> "", id |-> 0]

\* the responses fetch may resolve with: statuses on both sides of 200-299,
\* with and without a reason phrase (HTTP/2 has none), over the body shapes
Responses ==
    [status : {200, 201, 204, 299, 300, 304, 400, 404, 409, 422, 500, 503},
     statusText : {"", "Not Found"},
     body : {NoBody,
             [NoBody EXCEPT !.kind = "text"],
             [NoBody EXCEPT !.kind = "null"],
             [NoBody EXCEPT !.kind = "object", !.id = 1],
             [NoBody EXCEPT !.kind = "object", !.detail = "Document not found"],
             [NoBody EXCEPT !.kind = "object", !.message = "Internal Server Error"],
             [NoBody EXCEPT !.kind = "object", !.detail = "Tag already exists",
                            !.message = "Conflict"]}]

\* response.json(): rejects with a SyntaxError on a body that is not JSON
json(response) ==
    IF response.body.kind \in {"empty", "text"}
    THEN [raised |-> TRUE, value |-> NoBody]
    ELSE [raised |-> FALSE, value |-> response.body]

NoError == [name |-> "none", message |-> "", status |-> 0, statusText |-> "",
            detail |-> NULL]

\* new ApiError(status, statusText, detail):
\* message = detail || statusText || `HTTP Error ${status}`
ApiError(status, statusText, detail) ==
    [name |-> "ApiError",
     message |-> IF detail # NULL /\ detail # Some("")
                 THEN (CHOOSE d \in detail : TRUE)
                 ELSE IF statusText # "" THEN statusText
                 ELSE "HTTP Error " \o ToString(status),
     status |-> status,
     statusText |-> statusText,
     detail |-> detail]

\* the client before the fix: return response.json() whatever the status
handleResponse_unchecked(response) ==
    IF json(response).raised
    THEN [outcome |-> "thrown", value |-> NoBody,
          error |-> [NoError EXCEPT !.name = "SyntaxError"]]
    ELSE [outcome |-> "returned", value |-> json(response).value, error |-> NoError]

\* handleResponse: a response that is not ok (status outside 200-299) becomes
\* an ApiError whose detail is errorBody.detail || errorBody.message ||
\* JSON.stringify(errorBody), or null when the body is not JSON or reading a
\* property of it throws (the JSON value null); an ok one is its parsed body
handleResponse(response) ==
    IF ~(response.status >= 200 /\ response.status <= 299)
    THEN LET errorBody == json(response)
             detail ==
                 IF errorBody.raised \/ errorBody.value.kind = "null" THEN NULL
                 ELSE IF errorBody.value.detail # "" THEN Some(errorBody.value.detail)
                 ELSE IF errorBody.value.message # "" THEN Some(errorBody.value.message)
                 ELSE Some("{\"id\":" \o ToString(errorBody.value.id) \o "}")
         IN  [outcome |-> "thrown", value |-> NoBody,
              error |-> ApiError(response.status, response.statusText, detail)]
    ELSE IF json(response).raised
    THEN [outcome |-> "thrown", value |-> NoBody,
          error |-> [NoError EXCEPT !.name = "SyntaxError"]]
    ELSE [outcome |-> "returned", value |-> json(response).value, error |-> NoError]

\* one call of an API function whose fetch resolved with response
fetch(fn, response) ==
    /\ api' = [fn |-> fn, response |-> response, result |-> handleResponse(response)]
    /\ only({"api"})

\* ------------------------------------------------------------------ extract_text_from_pdf, step by step
\* "".join(text_parts)
RECURSIVE join_parts(_)
join_parts(text_parts) ==
    IF text_parts = <<>> THEN ""
    ELSE Head(text_parts) \o join_parts(Tail(text_parts))

\* the function as it was before the with statement: doc.close() is the last
\* statement before the return and is skipped by an exception
leave_close_at_end(e, exception) ==
    [e EXCEPT !.pc = IF exception = "none" THEN "returned" ELSE "raised",
              !.handle = IF exception = "none" THEN "closed" ELSE @,
              !.exception = exception,
              !.text = IF exception = "none" THEN join_parts(e.text_parts) ELSE ""]

\* control leaves the with block, by its end or by an exception passing
\* through: Document.__exit__ closes the document
leave(e, exception) ==
    [e EXCEPT !.pc = IF exception = "none" THEN "returned" ELSE "raised",
              !.handle = "closed",
              !.exception = exception,
              !.text = IF exception = "none" THEN join_parts(e.text_parts) ELSE ""]

\* fitz.open(file_path): the document handle, or FileDataError with no
\* handle acquired
fitz_open(pdf) ==
    /\ extraction.pc = "idle"
    /\ IF pdf.valid
       THEN extraction' = [extraction EXCEPT !.pc = "pages", !.doc = pdf,
                                             !.handle = "open"]
       ELSE extraction' = [extraction EXCEPT !.pc = "raised", !.doc = pdf,
                                             !.exception = "FileDataError"]
    /\ only({"extraction"})

\* for page in doc: text_parts.append(page.get_text()), which may raise
get_text(exception) ==
    /\ extraction.pc = "pages"
    /\ Len(extraction.text_parts) < Len(extraction.doc.pages)
    /\ IF exception = "none"
       THEN extraction' = [extraction EXCEPT !.text_parts =
                              Append(@, extraction.doc.pages[Len(@) + 1])]
       ELSE extraction' = leave(extraction, exception)
    /\ only({"extraction"})

\* page_count = len(doc), which may raise, and the end of the with block
page_count(exception) ==
    /\ extraction.pc = "pages"
    /\ Len(extraction.text_parts) = Len(extraction.doc.pages)
    /\ extraction' = [leave(extraction, exception) EXCEPT !.page_count =
                          IF exception = "none" THEN Len(extraction.doc.pages) ELSE 0]
    /\ only({"extraction"})

\* ------------------------------------------------------------------ UploadForm
\* App.handleUploadSuccess: setRefreshKey(prev => prev + 1)
handleUploadSuccess(prev) == prev + 1

\* onChange of the file input (disabled while uploading): e.target.files[0],
\* "" when no file is chosen
setFile(selected) ==
    /\ ~upload_form.uploading
    /\ upload_form' = [upload_form EXCEPT !.file = selected]
    /\ only({"upload_form"})

\* handleSubmit up to its await: nothing without a file, else
\* setUploading(true), setError(null) and the request leaves
handleSubmit ==
    /\ upload_form.pc = "idle"
    /\ upload_form.submits < MaxSubmits
    /\ IF upload_form.file = ""
       THEN UNCHANGED upload_form
       ELSE upload_form' = [upload_form EXCEPT !.pc = "awaiting", !.uploading = TRUE,
                                               !.error = "", !.onUploadSuccess = 0,
                                               !.settled = "pending", !.submits = @ + 1]
    /\ only({"upload_form"})

\* how the catch block words the error: err.detail || err.message for an
\* ApiError, a fixed text for anything else
errorMessage(err) ==
    IF err.name = "ApiError"
    THEN IF err.detail # NULL /\ err.detail # Some("")
         THEN CHOOSE d \in err.detail : TRUE
         ELSE err.message
    ELSE "Failed to upload document"

\* the rest of handleSubmit without its finally block: setUploading(false)
\* only at the end of the try block
handleSubmit_resume_no_finally(result) ==
    /\ upload_form.pc = "awaiting"
    /\ IF result.outcome = "returned"
       THEN upload_form' = [upload_form EXCEPT !.pc = "idle", !.file = "",
                               !.onUploadSuccess = @ + 1, !.settled = "resolved",
                               !.refreshKey = handleUploadSuccess(@),
                               !.uploading = FALSE]
       ELSE upload_form' = [upload_form EXCEPT !.pc = "idle",
                               !.error = errorMessage(result.error),
                               !.settled = "rejected"]
    /\ only({"upload_form"})

\* the rest of handleSubmit once uploadDocument has settled: setFile(null),
\* reset and onUploadSuccess() when it resolved, setError when it rejected,
\* setUploading(false) in both cases
handleSubmit_resume(result) ==
    /\ upload_form.pc = "awaiting"
    /\ IF result.outcome = "returned"
       THEN upload_form' = [upload_form EXCEPT !.pc = "idle", !.file = "",
                               !.onUploadSuccess = @ + 1, !.settled = "resolved",
                               !.refreshKey = handleUploadSuccess(@),
                               !.uploading = FALSE]
       ELSE upload_form' = [upload_form EXCEPT !.pc = "idle",
                               !.error = errorMessage(result.error),
                               !.settled = "rejected", !.uploading = FALSE]
    /\ only({"upload_form"})

\* ------------------------------------------------------------------ POST /tags, step by step
\* what the server answers when the INSERT violates the unique constraint
ConflictResponse ==
    [status |-> 409, statusText |-> "Conflict",
     body |-> [NoBody EXCEPT !.kind = "object", !.detail = "Tag already exists"]]

\* what the server answers when the Tag row was committed
CreatedResponse(id) ==
    [status |-> 201, statusText |-> "Created",
     body |-> [NoBody EXCEPT !.kind = "object", !.id = id]]

\* how handleCreateTag sees createTag end: the new tag, or err.detail
createTagCall(response) ==
    LET result == handleResponse(response)
    IN  [pc |-> result.outcome,
         status |-> IF result.outcome = "thrown" THEN result.error.status
                    ELSE response.status,
         detail |-> IF result.error.detail = NULL THEN ""
                    ELSE CHOOSE d \in result.error.detail : TRUE,
         tag |-> result.value.id]

\* the request reaches the server and its transaction starts: a name that is
\* already committed is refused at once
create_tag_begin(c, name) ==
    /\ calls[c].pc = "idle"
    /\ IF \E t \in tags : t.name = name
       THEN calls' = [calls EXCEPT ![c] = createTagCall(ConflictResponse)
                                             @@ [name |-> name, raced |-> FALSE]]
       ELSE calls' = [calls EXCEPT ![c] = [NoCall EXCEPT !.pc = "insert", !.name = name]]
    /\ UNCHANGED <<tags, next_tag_id, beside_tags>>

\* a Tag table without the unique constraint on name
create_tag_commit_unconstrained(c) ==
    /\ calls[c].pc = "insert"
    /\ tags' = tags \cup {[id |-> next_tag_id, name |-> calls[c].name]}
    /\ next_tag_id' = next_tag_id + 1
    /\ calls' = [calls EXCEPT ![c] =
                    createTagCall(CreatedResponse(next_tag_id))
                        @@ [name |-> calls[c].name, raced |-> FALSE]]
    /\ UNCHANGED beside_tags

\* INSERT and commit: the unique constraint on name lets one of two racing
\* inserts commit, the other becomes "already exists"
create_tag_commit(c) ==
    /\ calls[c].pc = "insert"
    /\ IF \E t \in tags : t.name = calls[c].name
       THEN /\ calls' = [calls EXCEPT ![c] =
                           createTagCall(ConflictResponse)
                               @@ [name |-> calls[c].name, raced |-> TRUE]]
            /\ UNCHANGED <<tags, next_tag_id>>
       ELSE /\ tags' = tags \cup {[id |-> next_tag_id, name |-> calls[c].name]}
            /\ next_tag_id' = next_tag_id + 1
            /\ calls' = [calls EXCEPT ![c] =
                           createTagCall(CreatedResponse(next_tag_id))
                               @@ [name |-> calls[c].name, raced |-> FALSE]]
    /\ UNCHANGED beside_tags

\* ------------------------------------------------------------------ specifications
DocIds == 1..MaxUploads
TagIds == 1..MaxTags

\* one step of the request handler running in worker r
Handler(r) ==
    \/ upload_document_validate(r)
    \/ upload_document_write(r)
    \/ upload_document_extract(r)
    \/ upload_document_cleanup(r)
    \/ upload_document_create(r)
    \/ upload_document_index(r)
    \/ \E id \in DocIds : delete_document_lookup(r, id)
    \/ delete_document_commit(r)
    \/ delete_document_discard(r)
    \/ Return(r)
    \/ Crash(r)

\* the ingestion / deletion pipeline under two concurrent requests
Next == \E r \in Reqs : Handler(r)

Spec == Init /\ [][Next]_vars

\* the pipeline with requests that may be cancelled
NextCancel == \E r \in Reqs : Handler(r) \/ Cancel(r)

SpecCancel == Init /\ [][NextCancel]_vars

\* the pipeline with a reader interleaved at any point
NextRead ==
    \/ \E r \in Reqs : Handler(r)
    \/ \E id \in DocIds : read_document(id)

SpecRead == Init /\ [][NextRead]_vars

\* the pipeline, one request at a time, with the tag registry's operations
\* interleaved at any point of a request
NextTags ==
    \/ Handler("r1")
    \/ \E name \in TagNames : createTag(name)
    \/ \E t \in TagIds : deleteTag(t)
    \/ \E d \in DocIds, t \in TagIds : addTagToDocument(d, t)
    \/ \E d \in DocIds, t \in TagIds : removeTagFromDocument(d, t)

SpecTags == Init /\ [][NextTags]_vars

\* concurrent POST /tags requests against the Tag table
NextCreateTag ==
    \/ \E c \in TagCalls, name \in NewTagNames : create_tag_begin(c, name)
    \/ \E c \in TagCalls : create_tag_commit(c)

SpecCreateTag == Init /\ [][NextCreateTag]_vars

\* the validator applied to one UploadFile after another
NextValidate == \E file \in ValidatorFiles : validate(file)

SpecValidate == Init /\ [][NextValidate]_vars

\* listings of a table that grows between them
NextList ==
    \/ \E created_at \in 1..MaxListed : insert_document(created_at)
    \/ \E page \in PageNumbers, page_size \in PageSizes : list_documents(page, page_size)

SpecList == Init /\ [][NextList]_vars

\* searches while one request at a time changes the store
NextSearch ==
    \/ Handler("r1")
    \/ \E q \in Queries : searchDocuments(q)
    \/ \E q \in Queries : SearchBar(q)

SpecSearch == Init /\ [][NextSearch]_vars

\* the sanitizer applied to a client filename
NextSanitize ==
    \/ \E c \in SanitizerChars : client_filename(c)
    \/ \E n \in 1..2 : sanitize(n)

SpecSanitize == Init /\ [][NextSanitize]_vars

\* the API functions, one call after another, over the responses fetch may give
NextApi ==
    \E fn \in {"uploadDocument", "getDocuments", "getDocument", "deleteDocument",
               "searchDocuments", "getTags", "createTag", "deleteTag",
               "addTagToDocument", "removeTagFromDocument", "getDocumentTags"},
       response \in Responses : fetch(fn, response)

SpecApi == Init /\ [][NextApi]_vars

\* the SearchBar while the user types and the requests resolve in any order
NextSearchBar ==
    \/ \E q \in Queries : setQuery(q)
    \/ debounceTimer
    \/ \E q \in Queries, data \in {{}, {1}, {1, 2}} : searchDocuments_resolved(q, data)
    \/ \E q \in Queries : searchDocuments_rejected(q)
    \/ handleClickOutside
    \/ onFocus

SpecSearchBar == Init /\ [][NextSearchBar]_vars

\* the DocumentList while the table changes and loads resolve or reject
NextDocumentList ==
    \/ \E total \in {0, 1, PAGE_SIZE, PAGE_SIZE + 1, MaxListPages * PAGE_SIZE} :
          documents_change(total)
    \/ \E page \in 0..(MaxListPages + 1) : goToPage(page)
    \/ refreshKey
    \/ \E page \in 1..MaxListPages : getDocuments_resolved(page)
    \/ \E page \in 1..MaxListPages : getDocuments_rejected(page)

SpecDocumentList == Init /\ [][NextDocumentList]_vars

\* the upload root check applied to a name
NextPathCheck ==
    \E safe_filename \in UNION {[1..n -> {"a", ".", "/"}] : n \in 0..MaxNameLen} :
        check_file_path(safe_filename)

SpecPathCheck == Init /\ [][NextPathCheck]_vars

\* one run of the extractor over a stored file: a PDF of up to MaxPages pages
\* or a file that fitz cannot open; any call inside the with block may
\* raise, a cancellation included
NextExtract ==
    \/ \E n \in 0..MaxPages : \E pages \in [1..n -> {"", "o ", "contrato "}] :
          fitz_open([valid |-> TRUE, pages |-> pages])
    \/ fitz_open([valid |-> FALSE, pages |-> <<>>])
    \/ \E exception \in {"none", "RuntimeError", "CancelledError"} : get_text(exception)
    \/ \E exception \in {"none", "RuntimeError", "CancelledError"} : page_count(exception)

SpecExtract == Init /\ [][NextExtract]_vars

\* the UploadForm: files are chosen and submitted, uploads resolve or reject
NextUploadForm ==
    \/ \E selected \in {"", "a.pdf", "x.exe"} : setFile(selected)
    \/ handleSubmit
    \/ \E response \in Responses : handleSubmit_resume(handleResponse(response))
       \* fetch itself rejected (no response): a TypeError, not an ApiError
    \/ handleSubmit_resume([outcome |-> "thrown", value |-> NoBody,
                            error |-> [NoError EXCEPT !.name = "TypeError"]])

SpecUploadForm == Init /\ [][NextUploadForm]_vars

\* ------------------------------------------------------------------ properties
Deletes == {r \in Reqs : req[r].op = "delete"}
Uploads == {r \in Reqs : req[r].op = "upload"}
Returned(r) == req[r].pc = "done"

HasStatus(document_id) == \E s \in processing_statuses : s.document_id = document_id
HasDocumentTag(document_id) == \E p \in DOMAIN document_tags : p[1] = document_id
Referenced(path) == \E d \in documents : d.file_path = path

\* C1: no Document row is present whose file delete_document has already
\* removed: the file goes only after the row's removal has been committed.
C1_FileRemovedOnlyAfterCommit ==
    \A d \in documents : d.file_path \notin removed_by_delete

C1_Witness == removed_by_delete # {}

\* C2: the step in which the delete transaction fails to commit changes no
\* Document, ProcessingStatus, DocumentTag or index entry and no file, and the
\* handler ends there with the failure, having removed nothing.
C2_FailedDeleteChangesNothing ==
    [][\A r \in Reqs :
          (req[r].pc = "del_commit" /\ req'[r].pc = "done")
              => /\ req'[r].result = "InternalError"
                 /\ req'[r].rm = "none"
                 /\ UNCHANGED <<documents, processing_statuses, document_tags, files>>]_vars

C2_Witness ==
    \E r \in Deletes : /\ Returned(r)
                       /\ req[r].result = "InternalError"
                       /\ req[r].doc \in Ids(documents)
                       /\ req[r].path \in files

\* C3: a delete whose transaction committed and whose file removal failed, or
\* found the file already missing, returns success and the Document is gone.
C3_DiscardFailureNotReported ==
    \A r \in Deletes :
        (Returned(r) /\ req[r].rm \in {"failed", "missing"})
            => (req[r].result = "ok" /\ req[r].doc \notin Ids(documents))

C3_Witness ==
    \E r \in Deletes : Returned(r) /\ req[r].rm = "failed" /\ req[r].path \in files

\* C4 as claimed: after every successful delete the Document, its
\* ProcessingStatus and its DocumentTag rows are gone and no file exists at the
\* recorded path.
C4_Claimed ==
    \A r \in Deletes :
        (Returned(r) /\ req[r].result = "ok")
            => /\ req[r].doc \notin Ids(documents)
               /\ ~HasStatus(req[r].doc)
               /\ ~HasDocumentTag(req[r].doc)
               /\ req[r].path \notin files

\* C4 as amended: after every successful delete the Document, its
\* ProcessingStatus and its DocumentTag rows are gone, and no file exists at the
\* recorded path unless removing it raised a filesystem error.
C4_SuccessfulDeleteLeavesNothing ==
    \A r \in Deletes :
        (Returned(r) /\ req[r].result = "ok")
            => /\ req[r].doc \notin Ids(documents)
               /\ ~HasStatus(req[r].doc)
               /\ ~HasDocumentTag(req[r].doc)
               /\ (req[r].path \notin files \/ req[r].rm = "failed")

C4_Witness ==
    \E r \in Deletes : /\ Returned(r)
                       /\ req[r].result = "ok"
                       /\ req[r].rm = "removed"
                       /\ tags # {}
                       /\ documents # {}

\* C5 as claimed: when an upload returns ProcessingError its written file is
\* no longer on disk and no Document row was created for it.
C5_Claimed ==
    \A r \in Uploads :
        (Returned(r) /\ req[r].result = "ProcessingError")
            => (req[r].path \notin files /\ ~Referenced(req[r].path))

\* C5 as amended: when an upload returns ProcessingError no Document row was
\* created for it, and its written file is no longer on disk unless removing
\* it raised a filesystem error.
C5_ExtractionFailureCleansUp ==
    \A r \in Uploads :
        (Returned(r) /\ req[r].result = "ProcessingError")
            => /\ ~Referenced(req[r].path)
               /\ (req[r].path \notin files \/ req[r].rm = "failed")

C5_Witness ==
    \E r \in Uploads : /\ Returned(r)
                       /\ req[r].result = "ProcessingError"
                       /\ req[r].rm = "removed"

\* C6: no upload that ends in an error after writing its file leaves that file
\* on disk without a committed Document referencing it (a removal that was
\* attempted and itself failed with a filesystem error is not held against
\* the claim here).
C6_Claimed ==
    \A r \in Uploads :
        (Returned(r) /\ req[r].result \in {"ProcessingError", "InternalError"})
            => \/ req[r].path \notin files
               \/ Referenced(req[r].path)
               \/ req[r].rm = "failed"

\* C7: a read sees a Document together with its ProcessingStatus(completed)
\* and its index entry, or none of them.
C7_Claimed ==
    IF observed.doc
    THEN observed.status = "completed" /\ observed.indexed
    ELSE observed.status = "none" /\ ~observed.indexed

\* C8: every committed Document has the index entry derived from its
\* extracted text, the empty text included.
C8_Claimed ==
    \A d \in documents : d.search_vector = Some(to_tsvector(d.content))

\* C9: a ProcessingStatus row exists for an id exactly when the Document row
\* with that id exists.
C9_StatusIffDocument ==
    {s.document_id : s \in processing_statuses} = Ids(documents)

C9_Witness ==
    /\ req["r1"].op = "delete"
    /\ req["r1"].pc = "del_file"
    /\ documents # {}
    /\ document_tags # EmptyBag

\* C10: every DocumentTag row references an existing Document and an existing
\* Tag, and no (document, tag) pair occurs in more than one row.
C10_DocumentTagsReferenceRows ==
    \A p \in DOMAIN document_tags :
        /\ p[1] \in Ids(documents)
        /\ p[2] \in Ids(tags)
        /\ document_tags[p] = 1

C10_Witness ==
    /\ req["r1"].op = "delete"
    /\ req["r1"].pc = "done"
    /\ req["r1"].result = "ok"
    /\ document_tags # EmptyBag

\* a step of a delete_document handler running in worker r
DeleteStep(r) ==
    /\ req'[r] # req[r]
    /\ (req[r].op = "delete" \/ req'[r].op = "delete")

\* C11: no step of a delete changes the set of Tag rows, and the DocumentTag
\* rows of every other document are the same rows after the step as before.
C11_DeleteLeavesTagsAndOtherRows ==
    [][\A r \in Reqs :
          DeleteStep(r)
              => /\ tags' = tags
                 /\ \A p \in DOMAIN document_tags \cup DOMAIN document_tags' :
                        p[1] # req'[r].doc
                            => /\ p \in DOMAIN document_tags
                               /\ p \in DOMAIN document_tags'
                               /\ document_tags'[p] = document_tags[p]]_vars

C11_Witness ==
    /\ req["r1"].op = "delete"
    /\ req["r1"].pc = "del_file"
    /\ req["r1"].doc \notin Ids(documents)
    /\ tags # {}
    /\ \E p \in DOMAIN document_tags : p[1] # req["r1"].doc

\* the POST /tags requests that asked for name, and those of them that are over
CallsFor(name) == {c \in TagCalls : calls[c].name = name}
Created(name) == {c \in CallsFor(name) : calls[c].pc = "returned"}
Refused(name) == {c \in CallsFor(name) : calls[c].pc = "thrown"}

\* C12: no two Tag rows share a name; and once every createTag call has
\* answered, each requested name has exactly one Tag row, exactly one call for
\* it returned the created tag, and every other call for it threw the
\* "already exists" ApiError (409), not a generic failure.
C12_OneCreateWins ==
    /\ \A t1, t2 \in tags : t1.name = t2.name => t1 = t2
    /\ (\A c \in TagCalls : calls[c].pc \in {"returned", "thrown"})
          => \A name \in NewTagNames :
                CallsFor(name) # {}
                    => /\ Cardinality({t \in tags : t.name = name}) = 1
                       /\ Cardinality(Created(name)) = 1
                       /\ \A c \in Created(name) :
                              [id |-> calls[c].tag, name |-> name] \in tags
                       /\ \A c \in CallsFor(name) \ Created(name) :
                              /\ c \in Refused(name)
                              /\ calls[c].status = 409
                              /\ calls[c].detail = "Tag already exists"

\* two calls for one name, both past the existence check before either
\* committed, and every call has answered
C12_Witness ==
    \E c1, c2 \in TagCalls :
        /\ c1 # c2
        /\ calls[c1].name = calls[c2].name
        /\ calls[c1].pc = "returned"
        /\ calls[c2].pc = "thrown"
        /\ calls[c2].raced
        /\ \A c \in TagCalls : calls[c].pc \in {"returned", "thrown"}

\* the six checks, each stated on its own
FilenamePresent(file) == Len(file.filename) > 0

\* the name ends in ".pdf" in any letter case, and what precedes that dot in
\* the last path component is more than dots
ExtensionIsPdf(file) ==
    LET name == file.filename
        n == Len(name)
    IN  /\ n >= 5
        /\ name[n - 3] = "."
        /\ name[n - 2] \in {"p", "P"}
        /\ name[n - 1] \in {"d", "D"}
        /\ name[n] \in {"f", "F"}
        /\ \E i \in 1..(n - 4) : /\ name[i] \notin {".", "/"}
                                 /\ \A j \in i..(n - 4) : name[j] # "/"

ContentTypeIsPdf(file) == file.content_type = "application/pdf"
SizeWithinCeiling(file) == file.content.size <= 50 * 1024 * 1024
NonEmpty(file) == file.content.size > 0

SignatureIsPdf(file) ==
    /\ file.content.size >= 4
    /\ file.content.head[1] = "%"
    /\ file.content.head[2] = "P"
    /\ file.content.head[3] = "D"
    /\ file.content.head[4] = "F"

ChecksInOrder(file) ==
    << <<"filename", FilenamePresent(file)>>,
       <<"extension", ExtensionIsPdf(file)>>,
       <<"content_type", ContentTypeIsPdf(file)>>,
       <<"too_large", SizeWithinCeiling(file)>>,
       <<"empty", NonEmpty(file)>>,
       <<"signature", SignatureIsPdf(file)>> >>

\* C13: the validator accepts an upload exactly when all six checks pass, and
\* otherwise reports the first check that fails, in the order filename,
\* extension, content type, size ceiling, non-empty, signature.
C13_FirstFailingCheck ==
    validated.result # "none"
        => LET checks == ChecksInOrder(validated.file)
               failing == {i \in 1..Len(checks) : ~checks[i][2]}
           IN  IF failing = {}
               THEN validated.result = "ok"
               ELSE validated.result =
                        checks[CHOOSE i \in failing : \A j \in failing : i <= j][1]

\* an upload failing two checks at once, reported by the earlier one
C13_Witness ==
    /\ validated.result = "extension"
    /\ ~ContentTypeIsPdf(validated.file)
    /\ ~SignatureIsPdf(validated.file)

\* a step of an upload_document handler running in worker r
UploadStep(r) ==
    /\ req'[r] # req[r]
    /\ (req[r].op = "upload" \/ req'[r].op = "upload")

\* C14: the step in which the validator rejects an upload leaves the files
\* on disk and the Document rows as they were, and no step of an upload
\* changes either before that upload has passed validation.
C14_RejectedUploadWritesNothing ==
    [][\A r \in Reqs :
          UploadStep(r)
              => /\ req'[r].result = "ValidationError"
                        => UNCHANGED <<files, documents, processing_statuses>>
                 /\ (files' # files \/ documents' # documents)
                        => req[r].verdict = "ok"]_vars

\* a payload without the %PDF signature turned down while files and
\* Documents of earlier uploads exist
C14_Witness ==
    \E r \in Uploads : /\ Returned(r)
                       /\ req[r].result = "ValidationError"
                       /\ req[r].verdict = "signature"
                       /\ files # {}
                       /\ documents # {}

\* the characters of [A-Za-z0-9._-], and the underscore that replaces the rest
SafeChars ==
    {"a", "b", "c", "d", "e", "f", "p", "x", "A", "D", "E", "F", "P", "X",
     "0", "1", "2", "3", "4", "5", "6", "7", "8", "9", ".", "_", "-"}

\* C15: a name the sanitizer returns is made of characters of [A-Za-z0-9._-]
\* and of the replacement '_' only, with no directory separator in it, and a
\* filename that is empty, "." or ".." once its directory part is stripped is
\* rejected.
C15_Claimed ==
    sanitized.called
        => /\ sanitized.result.ok
                => \A i \in 1..Len(sanitized.result.name) :
                       /\ sanitized.result.name[i] \in SafeChars
                       /\ sanitized.result.name[i] \notin {"/", "\\"}
           /\ basename(sanitized.filename) \in {<<>>, <<".">>, <<".", ".">>}
                => ~sanitized.result.ok

\* the stored name of a path without its uuid prefix
Unprefixed(path) == SubSeq(path[Len(path)], 9, Len(path[Len(path)]))

C17_PathInsideUploadRoot ==
    (sanitized.called /\ sanitized.result.ok)
        => LET file_path == join(UPLOAD_DIR, sanitized.result.name)
           IN  /\ validate_file_path(UPLOAD_DIR, file_path)
               /\ realpath(file_path) = Append(realpath(UPLOAD_DIR), sanitized.result.name)

\* a filename that climbs out of its directory, accepted after sanitizing
C17_Witness ==
    /\ sanitized.called
    /\ sanitized.result.ok
    /\ Len(sanitized.filename) = 4
    /\ SubSeq(sanitized.filename, 1, 3) = <<".", ".", "/">>

\* the least n with n * page_size >= total
Ceiling(total, page_size) ==
    CHOOSE n \in 0..total : n * page_size >= total /\ \A m \in 0..total : m * page_size >= total => n <= m

\* C18: a listing answered for page >= 1 and page_size in 1..100 reports
\* total_pages = max(1, ceil(total / page_size)), echoes page and page_size
\* with the total, and a page beyond total_pages has no items and is no error.
C18_TotalPages ==
    LET rq == listed.request
    IN  (rq.page >= 1 /\ rq.page_size >= 1 /\ rq.page_size <= 100)
            => /\ listed.status = 200
               /\ listed.total = Cardinality(catalog)
               /\ listed.page = rq.page
               /\ listed.page_size = rq.page_size
               /\ listed.total_pages =
                      (IF Ceiling(listed.total, rq.page_size) > 1
                       THEN Ceiling(listed.total, rq.page_size) ELSE 1)
               /\ rq.page > listed.total_pages => listed.items = <<>>

\* a page beyond the last of a table whose rows do not fill their last page
C18_Witness ==
    /\ listed.status = 200
    /\ listed.total = 3
    /\ listed.request.page_size = 2
    /\ listed.total_pages = 2
    /\ listed.request.page = 3
    /\ listed.items = <<>>

RECURSIVE Flatten(_)
Flatten(pages) == IF pages = <<>> THEN <<>> ELSE Head(pages) \o Flatten(Tail(pages))

\* C19: with the table unchanged, page k of a listing read page by page holds
\* exactly min(page_size, total - (k - 1) * page_size) Documents, and the pages
\* 1..total_pages together hold every Document exactly once, newest first,
\* also when Documents share a creation time.
C19_Claimed ==
    LET pages == listed.pages
        all == Flatten(pages)
    IN  (listed.status = 200 /\ pages # <<>>)
            => /\ \A k \in 1..Len(pages) :
                      k <= listed.total_pages
                          => Len(pages[k]) =
                                 (IF listed.page_size < listed.total - (k - 1) * listed.page_size
                                  THEN listed.page_size
                                  ELSE listed.total - (k - 1) * listed.page_size)
               /\ Len(pages) = listed.total_pages
                      => /\ Len(all) = Cardinality(catalog)
                         /\ {all[i] : i \in DOMAIN all} = Ids(catalog)
                         /\ \A i, j \in DOMAIN all :
                                i < j => Row(catalog, all[i]).created_at
                                             >= Row(catalog, all[j]).created_at

\* a query string without a word in it
Blank(q) == \A i \in 1..Len(q) : q[i] = " "

\* C20 as claimed: every search with an empty or whitespace-only query gets
\* the empty result list and reads nothing from the store.
C20_Claimed ==
    (searched.by # "none" /\ Blank(searched.q))
        => /\ searched.status \in {0, 200}
           /\ searched.items = {}
           /\ ~searched.read

\* C20 as amended: a search with a whitespace-only query of at least one
\* character gets the empty result list and reads nothing from the store; the
\* empty query sent to the server is refused with a validation error, also
\* without a read, and the SearchBar sends neither.
C20_BlankQueryReadsNothing ==
    (searched.by # "none" /\ Blank(searched.q))
        => /\ searched.items = {}
           /\ ~searched.read
           /\ searched.by = "SearchBar" => ~searched.sent
           /\ searched.by = "request"
                 => searched.status = (IF searched.q = <<>> THEN 422 ELSE 200)

\* a whitespace-only query answered while an indexed Document exists
C20_Witness ==
    /\ searched.by = "request"
    /\ searched.q = <<" ", " ">>
    /\ searched.status = 200
    /\ \E d \in documents : d.search_vector # NULL

\* ---- C21
\* C21: attach and detach are idempotent.  For an existing document and an
\* existing tag, an attach of a pair that is already present leaves the
\* DocumentTag rows as they are and is answered with a success status, and
\* so does a detach of a pair that is absent; hence a second attach (detach)
\* in a row changes nothing the first did not.
C21_AttachDetachIdempotent ==
    [][\A d \in DocIds, t \in TagIds :
         /\ (addTagToDocument(d, t) /\ BagIn(<<d, t>>, document_tags))
               => /\ document_tags' = document_tags
                  /\ toggled'.status \in 200..299
         /\ (removeTagFromDocument(d, t) /\ ~BagIn(<<d, t>>, document_tags))
               => /\ document_tags' = document_tags
                  /\ toggled'.status \in 200..299
         /\ addTagToDocument(d, t) => CopiesIn(<<d, t>>, document_tags') = 1
         /\ removeTagFromDocument(d, t) => CopiesIn(<<d, t>>, document_tags') = 0]_vars

\* an attach was repeated on a pair that was present, and the pair is there once
C21_Witness ==
    /\ toggled = [op |-> "attach", status |-> 200, present |-> TRUE]
    /\ \E d \in DocIds, t \in TagIds : CopiesIn(<<d, t>>, document_tags) = 1

\* ---- C22
\* C22: an API function returns a value only when the response status is in
\* 200-299; for every other status it throws an ApiError carrying that
\* status, and when the error body is empty or not JSON the detail is null
\* and the message is the statusText or, without one, "HTTP Error <status>".
C22_OnlyOkReturns ==
    api.fn # "none" =>
        LET status == api.response.status
            result == api.result
        IN  /\ result.outcome = "returned" => status \in 200..299
            /\ status \notin 200..299 =>
                  /\ result.outcome = "thrown"
                  /\ result.error.name = "ApiError"
                  /\ result.error.status = status
                  /\ api.response.body.kind \in {"empty", "text"} =>
                        /\ result.error.detail = NULL
                        /\ result.error.message =
                              IF api.response.statusText # ""
                              THEN api.response.statusText
                              ELSE "HTTP Error " \o ToString(status)

\* a 404 with an empty body and no reason phrase was thrown as "HTTP Error 404"
C22_Witness ==
    /\ api.fn = "deleteDocument"
    /\ api.response.status = 404
    /\ api.response.body.kind = "empty"
    /\ api.result.outcome = "thrown"
    /\ api.result.error.message = "HTTP Error 404"

C24_Claimed ==
    \A r \in Uploads :
        (Returned(r) /\ req[r].result = "Cancelled")
            => (req[r].path \notin files \/ Referenced(req[r].path))

\* ---- C25
\* C25: on every exit path of the extractor (all pages read, an exception
\* while reading a page or counting the pages, a cancellation) the document
\* handle it opened is closed when it returns or raises; a handle is open
\* only while the extractor is inside its with block.
C25_HandleClosedOnExit ==
    /\ extraction.pc \in {"returned", "raised"} => extraction.handle # "open"
    /\ extraction.handle = "open" => extraction.pc = "pages"
    /\ extraction.pc = "returned"
          => /\ extraction.handle = "closed"
             /\ extraction.page_count = Len(extraction.doc.pages)
             /\ extraction.text = join_parts(extraction.doc.pages)

\* the second page raised after the first was read, and the handle is closed
C25_Witness ==
    /\ extraction.pc = "raised"
    /\ extraction.exception \in {"RuntimeError", "CancelledError"}
    /\ Len(extraction.text_parts) = 1
    /\ extraction.handle = "closed"

C27_Claimed ==
    \A r1, r2 \in Reqs :
        (/\ r1 # r2
         /\ r1 \in Deletes /\ r2 \in Deletes
         /\ Returned(r1) /\ Returned(r2)
         /\ req[r1].doc = req[r2].doc
         /\ req[r1].result = "ok")
            => /\ req[r1].doc \notin Ids(documents)
               /\ ~HasStatus(req[r1].doc)
               /\ req[r1].path \notin files
               /\ req[r2].result = "NotFoundError"

\* ---- C28
\* C28: whenever the SearchBar shows results, they are the response to the
\* current query text: a response to an earlier query that arrives after the
\* query has changed, or was cleared, neither replaces the results nor
\* re-opens the panel.
C28_Claimed ==
    search_bar.showResults
        => /\ search_bar.answered.any
           /\ search_bar.answered.q = search_bar.query

\* ---- C29
\* C29: in every reachable state of the DocumentList the page is between 1
\* and totalPages, also after a load in which the server reports fewer pages
\* than before.
C29_Claimed ==
    /\ 1 <= document_list.page
    /\ document_list.page <= document_list.totalPages

\* ---- C30
\* C30: once a load has failed and the error is set, it stays set in every
\* later state: no later successful load clears it, and the component never
\* renders the list again.
C30_ErrorIsSticky ==
    [][document_list.error # ""
          => /\ document_list'.error = document_list.error
             /\ render(document_list') # "list"]_vars

\* the error is set and shown although the load that settled last succeeded
\* and brought documents
C30_Witness ==
    /\ document_list.error # ""
    /\ document_list.settled = "resolved"
    /\ document_list.documents > 0
    /\ render(document_list) = "error"

====
